---- MODULE Spec2Model ----
(***************************************************************************)
(* Order workflow of the grocery backend: cart -> order conversion, price  *)
(* snapshotting, invoice numbering and the order status state machine.     *)
(*                                                                         *)
(* The committed contents of the database tables are the variables         *)
(* products, addresses, carts, orders and invoices.  Every HTTP request    *)
(* runs in one database session (app/database.py get_db): what a request   *)
(* has written but not yet committed lives in its slot of req and becomes  *)
(* visible to the others only at its commit; a rollback discards it.       *)
(* Requests read the committed tables (READ COMMITTED).  Money is counted  *)
(* in hundredths (Numeric(10, 2)).                                         *)
(***************************************************************************)
EXTENDS Integers, Sequences, FiniteSets, TLC

\* ------------------------------------------------------------------ bounds
MaxOrders == 1      \* committed orders, in Spec
MaxQty == 2         \* largest quantity of a cart line
MaxEdits == 1       \* catalogue and address-book edits in one run
MaxHistory == 2     \* status-history rows of one order, in Spec
MaxRaceOrders == 4  \* committed orders, in RaceSpec
MaxYear == 2        \* calendar years the clock passes through, in RaceSpec
MaxChain == 5       \* status-history rows of one order, in StatusSpec
MaxInputQty == 3    \* largest in-range quantity of a cart request body
MaxLineQty == 5     \* largest stored quantity, in CartSpec
MaxLines == 2       \* rows of one cart
MaxAddressEdits == 2 \* address-book and registry writes, in AddressSpec
MaxInvoiceOrders == 2 \* checkouts of one run, in InvoiceSpec

\* --------------------------------------------------------------- constants
DeliveryFee == 2900 \* settings.delivery_fee = 29.00

Users == {"u1", "u2"}
Products == {"p1", "p2"}
Prices == {200, 350}
Streets == {"Elm 1", "Oak 2"}
Reqs == {"r1", "r2"}
None == "None"

VARIABLES products, addresses, carts, orders, invoices, year, edits, req, response,
          service_postcodes

vars == <<products, addresses, carts, orders, invoices, year, edits, req, response,
          service_postcodes>>

\* ------------------------------------------------------------ OrderStatus
OrderStatus ==
    {"PLACED", "CONFIRMED", "PACKING", "OUT_FOR_DELIVERY", "DELIVERED", "CANCELED"}

\* A table that lets a PLACED order skip its confirmation.
valid_transitions_skipping(s) ==
    CASE s = "PLACED" -> {"CONFIRMED", "PACKING", "CANCELED"}
      [] s = "CONFIRMED" -> {"PACKING", "CANCELED"}
      [] s = "PACKING" -> {"OUT_FOR_DELIVERY", "CANCELED"}
      [] s = "OUT_FOR_DELIVERY" -> {"DELIVERED", "CANCELED"}
      [] s = "DELIVERED" -> {}
      [] s = "CANCELED" -> {}

valid_transitions(s) ==
    CASE s = "PLACED" -> {"CONFIRMED", "CANCELED"}
      [] s = "CONFIRMED" -> {"PACKING", "CANCELED"}
      [] s = "PACKING" -> {"OUT_FOR_DELIVERY", "CANCELED"}
      [] s = "OUT_FOR_DELIVERY" -> {"DELIVERED", "CANCELED"}
      [] s = "DELIVERED" -> {}
      [] s = "CANCELED" -> {}

can_transition_to(s, new_status) == new_status \in valid_transitions(s)

\* ------------------------------------------------------------------ rows
NoSnapshot == [postcode |-> None, street |-> None]
NoInvoiceNumber == [year |-> 0, seq |-> 0]

\* Address.to_snapshot: the frozen copy of the address kept in the order.
to_snapshot(address) == [postcode |-> address.postcode, street |-> address.street]

\* The product fields copied into an order item.
ProductSnapshot(product_id) ==
    [name |-> products[product_id].name, sku |-> product_id]

\* The body of a create_address / update_address request; None marks a
\* field the request does not carry.
NoAddressData == [postcode |-> None, street |-> None, is_default |-> None]

\* A request slot that is not running a request.
IdleReq ==
    [pc |-> "idle", user_id |-> None, address_id |-> None,
     address_snapshot |-> NoSnapshot, order_items_data |-> <<>>,
     subtotal |-> 0, delivery_fee |-> 0, total |-> 0,
     invoice_number |-> NoInvoiceNumber, pending |-> <<>>,
     order_id |-> 0, current_status |-> None, new_status |-> None,
     notes |-> None, changed_by |-> None,
     op |-> None, items |-> <<>>, input |-> <<>>, creates_cart |-> FALSE,
     data |-> NoAddressData, unset |-> {}]

\* What the step just taken answered: the request that ended and how, the
\* point of the handler it ended at, and, for a status update, the order and
\* the two statuses named in its answer; lines is the number of cart rows a
\* checkout deleted; a cart request is answered with the body it carried.
\* NoResponse when the step ended no request.
NoResponse ==
    [op |-> None, outcome |-> None, req |-> None, at |-> None,
     order_id |-> 0, from_status |-> None, to_status |-> None, lines |-> 0,
     address_id |-> None, user_id |-> None, input |-> <<>>,
     cart |-> [items |-> <<>>, subtotal |-> 0, item_count |-> 0]]

Response(op, outcome, r, at) ==
    [NoResponse EXCEPT !.op = op, !.outcome = outcome, !.req = r, !.at = at]

\* -------------------------------------------------------------- helpers
RECURSIVE SumLineTotals(_)
SumLineTotals(items) ==
    IF items = <<>> THEN 0
    ELSE items[1].line_total + SumLineTotals(Tail(items))

Max(S) == CHOOSE x \in S : \A y \in S : y <= x

\* The index of the cart line of product_id, 0 when there is none
\* (next(item for item in cart.items if item.product_id == product_id)).
LineOf(items, product_id) ==
    IF \E i \in 1..Len(items) : items[i].product_id = product_id
    THEN CHOOSE i \in 1..Len(items) :
            /\ items[i].product_id = product_id
            /\ \A j \in 1..(i - 1) : items[j].product_id # product_id
    ELSE 0

\* cart.items is loaded without ORDER BY: the rows of a cart are kept here in
\* one canonical order, by product.
Rank(product_id) == IF product_id = "p1" THEN 1 ELSE 2

InsertRow(items, row) ==
    LET k == Cardinality({i \in 1..Len(items) :
                 Rank(items[i].product_id) <= Rank(row.product_id)})
    IN  SubSeq(items, 1, k) \o <<row>> \o SubSeq(items, k + 1, Len(items))

RemoveAt(items, i) == SubSeq(items, 1, i - 1) \o SubSeq(items, i + 1, Len(items))

\* ------------------------------------------------ AddressService (reads)
\* A lookup by id alone, without the owner.
get_address_by_id_any_user(address_id, user_id) ==
    address_id \in DOMAIN addresses

get_address_by_id(address_id, user_id) ==
    /\ address_id \in DOMAIN addresses
    /\ addresses[address_id].user_id = user_id

\* A lookup that forgets the is_verified filter.
get_address_unverified(address_id, user_id) ==
    /\ address_id \in DOMAIN addresses
    /\ addresses[address_id].user_id = user_id

\* A lookup that asks the registry again.
get_verified_address_in_service(address_id, user_id) ==
    /\ address_id \in DOMAIN addresses
    /\ addresses[address_id].user_id = user_id
    /\ addresses[address_id].is_verified
    /\ addresses[address_id].postcode \in DOMAIN service_postcodes
    /\ service_postcodes[addresses[address_id].postcode].is_active

get_verified_address(address_id, user_id) ==
    /\ address_id \in DOMAIN addresses
    /\ addresses[address_id].user_id = user_id
    /\ addresses[address_id].is_verified

\* The registry lookup without the is_active filter.
verify_postcode_any_entry(postcode) ==
    postcode \in DOMAIN service_postcodes

verify_postcode(postcode) ==
    /\ postcode \in DOMAIN service_postcodes
    /\ service_postcodes[postcode].is_active

\* -------------------------------------------------- OrderService (reads)
get_order(order_id, user_id) ==
    /\ order_id \in 1..Len(orders)
    /\ orders[order_id].user_id = user_id

\* --------------------------------------------------- CartService (reads)
get_cart(user_id) == user_id \in DOMAIN carts

_get_active_product(product_id) ==
    product_id \in DOMAIN products /\ products[product_id].is_active

\* ------------------------------------------------- create_order, pricing
\* The loop over cart.items: lines of inactive products are skipped, the
\* others are priced with the product row as loaded with the cart.
\* A loop that keeps every line.
IsActiveLine_any(cart_item) == TRUE

IsActiveLine(cart_item) == products[cart_item.product_id].is_active

PriceAtPurchase(cart_item) == products[cart_item.product_id].price

\* A line total that forgets the quantity.
LineTotal_unit_price(cart_item) == PriceAtPurchase(cart_item)

LineTotal(cart_item) == PriceAtPurchase(cart_item) * cart_item.quantity

OrderItemsData(cart_items) ==
    LET kept == SelectSeq(cart_items, IsActiveLine)
    IN  [i \in 1..Len(kept) |->
            [product_id |-> kept[i].product_id,
             product_snapshot |-> ProductSnapshot(kept[i].product_id),
             quantity |-> kept[i].quantity,
             price_at_purchase |-> PriceAtPurchase(kept[i]),
             line_total |-> LineTotal(kept[i])]]

Total(subtotal, delivery_fee) == subtotal + delivery_fee

\* ------------------------------------------------------ invoice numbers
\* The column holds the text f"INV-{year}-{next_seq:06d}"; the model keeps the
\* year and the sequence number and derives the text and its reading.
PadWidth == 6

RECURSIVE ToDigits(_)
ToDigits(n) == IF n < 10 THEN <<n>> ELSE ToDigits(n \div 10) \o <<n % 10>>

\* {next_seq:06d}: zeros in front up to the width, never a digit cut off.
RECURSIVE ZeroPad(_, _)
ZeroPad(digits, width) ==
    IF Len(digits) >= width THEN digits ELSE ZeroPad(<<0>> \o digits, width)

InvoiceNumberText(invoice_number) ==
    [prefix |-> "INV", year |-> invoice_number.year,
     sequence |-> ZeroPad(ToDigits(invoice_number.seq), PadWidth)]

\* int(last_invoice.split("-")[-1]).
RECURSIVE ToInt(_)
ToInt(digits) ==
    IF digits = <<>> THEN 0
    ELSE 10 * ToInt(SubSeq(digits, 1, Len(digits) - 1)) + digits[Len(digits)]

\* The rows the LIKE of another prefix would return: every invoice.
InvoicesOfYear_all_years(y) == {i \in 1..Len(invoices) : TRUE}

\* Invoice.id is the position of the row in invoices (autoincrement).
\* invoice_number LIKE 'INV-{year}-%'.
InvoicesOfYear(y) ==
    {i \in 1..Len(invoices) : InvoiceNumberText(invoices[i].invoice_number).year = y}

NextSeq(y) ==
    IF InvoicesOfYear(y) = {} THEN 1
    ELSE LET last_invoice ==
                 InvoiceNumberText(invoices[Max(InvoicesOfYear(y))].invoice_number)
         IN  ToInt(last_invoice.sequence) + 1

_generate_invoice_number == [year |-> year, seq |-> NextSeq(year)]

\* ------------------------------------------------------------------ Init
\* The service-area registry: 2100 and 2300 are served, 1000 is listed but
\* switched off, 9999 is not listed.
InitialServicePostcodes ==
       ("2100" :> [city_name |-> "Copenhagen", is_active |-> TRUE])
       @@ ("2300" :> [city_name |-> "Copenhagen", is_active |-> TRUE])
       @@ ("1000" :> [city_name |-> "Copenhagen", is_active |-> FALSE])

InitialAddresses ==
       ("a1" :> [user_id |-> "u1", is_verified |-> TRUE, is_default |-> TRUE,
                    postcode |-> "2100", street |-> "Elm 1"])
       @@ ("a2" :> [user_id |-> "u2", is_verified |-> TRUE, is_default |-> FALSE,
                    postcode |-> "2100", street |-> "Elm 1"])
       @@ ("a3" :> [user_id |-> "u1", is_verified |-> FALSE, is_default |-> FALSE,
                    postcode |-> "9999", street |-> "Oak 2"])
       @@ ("a4" :> [user_id |-> "u1", is_verified |-> TRUE, is_default |-> FALSE,
                    postcode |-> "2300", street |-> "Oak 2"])

Init ==
    /\ products = [p \in Products |-> [price |-> 200, name |-> "Milk", is_active |-> TRUE]]
    /\ addresses = InitialAddresses
    /\ carts = [u \in {} |-> <<>>]
    /\ orders = <<>>
    /\ invoices = <<>>
    /\ year = 1
    /\ edits = 0
    /\ req = [r \in Reqs |-> IdleReq]
    /\ response = NoResponse
    /\ service_postcodes = InitialServicePostcodes

AddrIds == {"a1", "a2", "a3", "a4"}

\* ------------------------------------------------------------ sessions
\* get_db: the session commits when the handler returns and rolls back when
\* it raises or is cancelled; a rollback drops the rows the request added.
\* A session end that writes the flushed rows instead of discarding them.
Rollback_keeping_pending(r) == orders \o req[r].pending

Rollback(r) == orders

\* Order rows other sessions have inserted and not yet committed: an insert
\* of the same invoice_number waits on the unique index until they end.
PendingInvoiceNumbers(r) ==
    {req[x].invoice_number : x \in {y \in Reqs \ {r} : req[y].pc = "co_flushed"}}

CommittedInvoiceNumbers == {orders[i].invoice_number : i \in 1..Len(orders)}

\* Order rows of other sessions that hold a reference to the address.
PendingAddressRefs == {req[x].address_id : x \in {y \in Reqs : req[y].pc = "co_flushed"}}

CommittedAddressRefs == {orders[i].address_id : i \in 1..Len(orders)}

\* Tables without the unique constraints.
InvoiceNumberTaken_unconstrained(invoice_number) == FALSE

\* The unique constraint on orders.invoice_number / invoices.invoice_number.
InvoiceNumberTaken(invoice_number) == invoice_number \in CommittedInvoiceNumbers

\* ---------------------------------------------------------- create_order
\* Lines 29-75: the address and cart reads, the pricing loop, the totals.
CreateOrderFailure(user_id, address_id) ==
    IF ~get_verified_address(address_id, user_id)
    THEN "Please select a verified delivery address"
    ELSE IF ~get_cart(user_id) \/ carts[user_id] = <<>>
    THEN "Your cart is empty"
    ELSE IF OrderItemsData(carts[user_id]) = <<>>
    THEN "No valid items in cart"
    ELSE None

CoBegin(r, user_id, address_id, limit) ==
    /\ req[r].pc = "idle"
    /\ Len(orders) < limit
    /\ IF CreateOrderFailure(user_id, address_id) # None
       THEN /\ response' = [Response("create_order", CreateOrderFailure(user_id, address_id),
                                      r, "idle")
                  EXCEPT !.user_id = user_id, !.address_id = address_id]
            /\ UNCHANGED req
       ELSE LET order_items_data == OrderItemsData(carts[user_id])
                subtotal == SumLineTotals(order_items_data)
            IN  /\ req' = [req EXCEPT ![r] =
                      [IdleReq EXCEPT !.pc = "co_priced",
                                      !.user_id = user_id,
                                      !.address_id = address_id,
                                      !.address_snapshot = to_snapshot(addresses[address_id]),
                                      !.order_items_data = order_items_data,
                                      !.subtotal = subtotal,
                                      !.delivery_fee = DeliveryFee,
                                      !.total = Total(subtotal, DeliveryFee)]]
                /\ response' = NoResponse
    /\ UNCHANGED <<products, addresses, carts, orders, invoices, year, edits, service_postcodes>>

\* Line 78: the read of the latest invoice of the year.
CoGenerateInvoiceNumber(r) ==
    /\ req[r].pc = "co_priced"
    /\ req' = [req EXCEPT ![r].pc = "co_numbered",
                          ![r].invoice_number = _generate_invoice_number]
    /\ response' = NoResponse
    /\ UNCHANGED <<products, addresses, carts, orders, invoices, year, edits, service_postcodes>>

\* Lines 81-94: the order row is inserted by the first flush.  The insert
\* fails on a committed row with the same invoice_number or on an address
\* that is gone, and waits for an uncommitted row with the same number.
NewOrder(r) ==
    [user_id |-> req[r].user_id,
     address_id |-> req[r].address_id,
     address_snapshot |-> req[r].address_snapshot,
     status |-> "PLACED",
     subtotal |-> req[r].subtotal,
     delivery_fee |-> req[r].delivery_fee,
     total |-> req[r].total,
     invoice_number |-> req[r].invoice_number,
     items |-> <<>>,
     status_history |-> <<>>]

CoFlushOrder(r) ==
    /\ req[r].pc = "co_numbered"
    /\ req[r].invoice_number \notin PendingInvoiceNumbers(r)
    /\ IF InvoiceNumberTaken(req[r].invoice_number)
       THEN /\ req' = [req EXCEPT ![r] = IdleReq]
            /\ orders' = Rollback(r)
            /\ response' = Response("create_order", "IntegrityError: invoice_number", r, "co_numbered")
       ELSE IF req[r].address_id \notin DOMAIN addresses
       THEN /\ req' = [req EXCEPT ![r] = IdleReq]
            /\ orders' = Rollback(r)
            /\ response' = Response("create_order", "IntegrityError: address_id", r, "co_numbered")
       ELSE /\ req' = [req EXCEPT ![r].pc = "co_flushed", ![r].pending = <<NewOrder(r)>>]
            /\ response' = NoResponse
            /\ UNCHANGED orders
    /\ UNCHANGED <<products, addresses, carts, invoices, year, edits, service_postcodes>>

\* Lines 96-114: the item rows, the first history row and the invoice row.
InitialHistory == <<[status |-> "PLACED", notes |-> "Order placed by customer", changed_by |-> None]>>

\* A create_order that forgets the initial history row.
CompleteOrder_without_history(r) ==
    [req[r].pending[1] EXCEPT !.items = req[r].order_items_data]

CompleteOrder(r) ==
    [req[r].pending[1] EXCEPT !.items = req[r].order_items_data,
                             !.status_history = InitialHistory]

\* A clear_cart that deletes only the lines that can be ordered.
clear_cart_ordered_lines(user_id) ==
    IF get_cart(user_id)
    THEN [carts EXCEPT ![user_id] =
            SelectSeq(carts[user_id], LAMBDA item : ~IsActiveLine(item))]
    ELSE carts

\* CartService.clear_cart: DELETE FROM cart_items WHERE cart_id = cart.id.
clear_cart(user_id) ==
    IF get_cart(user_id) THEN [carts EXCEPT ![user_id] = <<>>] ELSE carts

\* Lines 96-122 and the commit of get_db.
CoFinish(r) ==
    /\ req[r].pc = "co_flushed"
    /\ orders' = Append(orders, CompleteOrder(r))
    /\ invoices' = Append(invoices,
          [order_id |-> Len(orders) + 1, invoice_number |-> req[r].invoice_number])
    /\ carts' = clear_cart(req[r].user_id)
    /\ req' = [req EXCEPT ![r] = IdleReq]
    /\ response' = [Response("create_order", "201", r, "co_flushed") EXCEPT
          !.order_id = Len(orders) + 1,
          !.lines = Len(carts[req[r].user_id])]
    /\ UNCHANGED <<products, addresses, year, edits, service_postcodes>>

\* A persistence error at a flush, or the cancellation of the request, at any
\* point before the commit: the session is rolled back and closed.
CoAbort(r, why) ==
    /\ req[r].pc \in {"co_priced", "co_numbered", "co_flushed"}
    /\ why = "OperationalError" => req[r].pc \in {"co_numbered", "co_flushed"}
    /\ orders' = Rollback(r)
    /\ req' = [req EXCEPT ![r] = IdleReq]
    /\ response' = Response("create_order", why, r, req[r].pc)
    /\ UNCHANGED <<products, addresses, carts, invoices, year, edits, service_postcodes>>

\* --------------------------------------------------- update_order_status
\* History rows other sessions are about to append to the order.
InFlightTransitions(order_id) ==
    Cardinality({x \in Reqs : req[x].pc = "uos_validated" /\ req[x].order_id = order_id})

\* Lines 226-235: the load of the order and the validation of the transition.
UosLoad(r, order_id, new_status, notes, changed_by, limit) ==
    /\ req[r].pc = "idle"
    /\ IF order_id \notin 1..Len(orders)
       THEN /\ response' = [Response("update_order_status", "Order not found", r, "idle")
                EXCEPT !.order_id = order_id, !.to_status = new_status]
            /\ UNCHANGED req
       ELSE IF ~can_transition_to(orders[order_id].status, new_status)
       THEN /\ response' =
                [Response("update_order_status", "Invalid status transition", r, "idle")
                 EXCEPT !.order_id = order_id,
                        !.from_status = orders[order_id].status,
                        !.to_status = new_status]
            /\ UNCHANGED req
       ELSE /\ Len(orders[order_id].status_history) + InFlightTransitions(order_id) < limit
            /\ req' = [req EXCEPT ![r] =
                  [IdleReq EXCEPT !.pc = "uos_validated",
                                  !.order_id = order_id,
                                  !.current_status = orders[order_id].status,
                                  !.new_status = new_status,
                                  !.notes = notes,
                                  !.changed_by = changed_by]]
            /\ response' = NoResponse
    /\ UNCHANGED <<products, addresses, carts, orders, invoices, year, edits, service_postcodes>>

\* Lines 237-247: the new status and the history row.
\* A status update that rewrites the last history row instead of adding one.
SetStatus_overwriting(order, new_status, notes, changed_by) ==
    [order EXCEPT !.status = new_status,
                  !.status_history[Len(order.status_history)] =
                      [status |-> new_status, notes |-> notes, changed_by |-> changed_by]]

\* A status update that refreshes the order's copy of the address.
SetStatus_resnapshot(order, new_status, notes, changed_by) ==
    [order EXCEPT !.status = new_status,
                  !.address_snapshot = to_snapshot(addresses[order.address_id]),
                  !.status_history = Append(order.status_history,
                      [status |-> new_status, notes |-> notes, changed_by |-> changed_by])]

\* A status update that leaves no history row.
SetStatus_unrecorded(order, new_status, notes, changed_by) ==
    [order EXCEPT !.status = new_status]

SetStatus(order, new_status, notes, changed_by) ==
    [order EXCEPT !.status = new_status,
                  !.status_history = Append(order.status_history,
                      [status |-> new_status, notes |-> notes, changed_by |-> changed_by])]

\* Lines 237-252 and the commit of get_db: UPDATE orders SET status and the
\* INSERT of the history row, written by the flush and committed.
UosFlush(r) ==
    /\ req[r].pc = "uos_validated"
    /\ orders' = [orders EXCEPT ![req[r].order_id] =
          SetStatus(orders[req[r].order_id], req[r].new_status, req[r].notes, req[r].changed_by)]
    /\ req' = [req EXCEPT ![r] = IdleReq]
    /\ response' = [Response("update_order_status", "200", r, "uos_validated") EXCEPT
          !.order_id = req[r].order_id,
          !.from_status = req[r].current_status,
          !.to_status = req[r].new_status]
    /\ UNCHANGED <<products, addresses, carts, invoices, year, edits, service_postcodes>>

UosAbort(r) ==
    /\ req[r].pc = "uos_validated"
    /\ req' = [req EXCEPT ![r] = IdleReq]
    /\ response' = Response("update_order_status", "cancelled", r, "uos_validated")
    /\ UNCHANGED <<products, addresses, carts, orders, invoices, year, edits, service_postcodes>>

\* ------------------------------------------------------------ CartService
\* Each cart request is one transaction, committed when the handler returns.
get_or_create_cart(user_id) ==
    IF get_cart(user_id) THEN carts ELSE (user_id :> <<>>) @@ carts

SetCart(user_id, items) == (user_id :> items) @@ carts

\* add_item overwriting the quantity of the line it finds.
add_item_overwriting(items, product_id, quantity) ==
    LET i == LineOf(items, product_id)
    IN  IF i # 0
        THEN [items EXCEPT ![i].quantity = quantity]
        ELSE InsertRow(items, [product_id |-> product_id, quantity |-> quantity])

add_item(items, product_id, quantity) ==
    LET i == LineOf(items, product_id)
    IN  IF i # 0
        THEN [items EXCEPT ![i].quantity = @ + quantity]
        ELSE InsertRow(items, [product_id |-> product_id, quantity |-> quantity])

AddItem(user_id, product_id, quantity) ==
    /\ IF ~_get_active_product(product_id)
       THEN UNCHANGED carts
       ELSE LET items == get_or_create_cart(user_id)[user_id]
            IN  /\ \A i \in 1..Len(add_item(items, product_id, quantity)) :
                      add_item(items, product_id, quantity)[i].quantity <= MaxQty
                /\ carts' = SetCart(user_id, add_item(items, product_id, quantity))
    /\ response' = NoResponse
    /\ UNCHANGED <<products, addresses, orders, invoices, year, edits, req, service_postcodes>>

update_item(items, product_id, quantity) ==
    LET i == LineOf(items, product_id)
    IN  IF quantity <= 0 THEN RemoveAt(items, i)
        ELSE [items EXCEPT ![i].quantity = quantity]

UpdateItem(user_id, product_id, quantity) ==
    /\ LET items == get_or_create_cart(user_id)[user_id]
       IN  IF LineOf(items, product_id) = 0
           THEN UNCHANGED carts
           ELSE carts' = SetCart(user_id, update_item(items, product_id, quantity))
    /\ response' = NoResponse
    /\ UNCHANGED <<products, addresses, orders, invoices, year, edits, req, service_postcodes>>

remove_item(items, product_id) ==
    LET i == LineOf(items, product_id)
    IN  IF i # 0 THEN RemoveAt(items, i) ELSE items

RemoveItem(user_id, product_id) ==
    /\ carts' = SetCart(user_id, remove_item(get_or_create_cart(user_id)[user_id], product_id))
    /\ response' = NoResponse
    /\ UNCHANGED <<products, addresses, orders, invoices, year, edits, req, service_postcodes>>

ClearCart(user_id) ==
    /\ carts' = clear_cart(user_id)
    /\ response' = NoResponse
    /\ UNCHANGED <<products, addresses, orders, invoices, year, edits, req, service_postcodes>>

\* The cart as the endpoints return it: the lines that have a product row,
\* at the product's current price.
_cart_to_response(cart_items) ==
    LET RECURSIVE Walk(_, _)
        Walk(rest, acc) ==
            IF rest = <<>> THEN acc
            ELSE LET cart_item == Head(rest)
                 IN  IF cart_item.product_id \in DOMAIN products
                     THEN LET line_total ==
                                  products[cart_item.product_id].price * cart_item.quantity
                          IN  Walk(Tail(rest),
                                   [items |-> Append(acc.items,
                                        [product_id |-> cart_item.product_id,
                                         name |-> products[cart_item.product_id].name,
                                         price |-> products[cart_item.product_id].price,
                                         quantity |-> cart_item.quantity,
                                         line_total |-> line_total]),
                                    subtotal |-> acc.subtotal + line_total,
                                    item_count |-> acc.item_count + cart_item.quantity])
                     ELSE Walk(Tail(rest), acc)
    IN  Walk(cart_items, [items |-> <<>>, subtotal |-> 0, item_count |-> 0])

\* ------------------------------------------- CartService, step by step
\* A cart request as the steps of its session: the SELECT of the cart, the
\* INSERT of a missing cart, and the handler's work on the rows it loaded,
\* written by the flush and committed when the handler returns.  req[r].items
\* is cart.items as loaded, req[r].input the (product, quantity) pairs of the
\* request body.

\* schemas/cart.py: quantity: int = Field(..., gt=0, le=99), on CartItemAdd
\* and on CartItemUpdate alike.
QuantityLe == 99
ValidQuantity(quantity) == quantity > 0 /\ quantity <= QuantityLe

CartOps == {"add_item", "update_item", "remove_item", "clear_cart", "sync_guest_cart"}

\* The request body passes the schema of its endpoint; DELETE has no body.
ValidCartInput(op, input) ==
    \/ op \in {"remove_item", "clear_cart"}
    \/ \A i \in 1..Len(input) : ValidQuantity(input[i].quantity)

\* FastAPI answers 422 before the handler runs.
CartReject(r, op, user_id, input) ==
    /\ req[r].pc = "idle"
    /\ ~ValidCartInput(op, input)
    /\ response' = [Response(op, "422", r, "idle") EXCEPT !.user_id = user_id,
                                                          !.input = input]
    /\ UNCHANGED <<products, addresses, carts, orders, invoices, year, edits, req,
                   service_postcodes>>

\* get_or_create_cart lines 24-30 (get_cart lines 42-48 for clear_cart).
CartSelect(r, op, user_id, input) ==
    /\ req[r].pc = "idle"
    /\ ValidCartInput(op, input)
    /\ req' = [req EXCEPT ![r] =
          [IdleReq EXCEPT !.op = op, !.user_id = user_id, !.input = input,
                          !.items = IF get_cart(user_id) THEN carts[user_id] ELSE <<>>,
                          !.pc = IF get_cart(user_id) \/ op = "clear_cart"
                                 THEN "cart_loaded" ELSE "cart_missing"]]
    /\ response' = NoResponse
    /\ UNCHANGED <<products, addresses, carts, orders, invoices, year, edits,
                   service_postcodes>>

\* A table without the unique index: no insert is seen by another session.
PendingCarts_unseen(r) == {}

\* Carts other sessions have inserted and not yet committed.
PendingCarts(r) ==
    {req[x].user_id : x \in {y \in Reqs \ {r} : req[y].creates_cart}}

\* get_or_create_cart lines 32-36: INSERT INTO carts and flush.  carts.user_id
\* is unique (models/cart.py:24-30): the insert waits for a session that has
\* inserted a cart of the same user, and fails once such a cart is committed.
CartCreate(r) ==
    /\ req[r].pc = "cart_missing"
    /\ req[r].user_id \notin PendingCarts(r)
    /\ IF get_cart(req[r].user_id)
       THEN /\ req' = [req EXCEPT ![r] = IdleReq]
            /\ response' = [Response(req[r].op, "IntegrityError: user_id", r, "cart_missing")
                  EXCEPT !.user_id = req[r].user_id]
       ELSE /\ req' = [req EXCEPT ![r].pc = "cart_loaded", ![r].creates_cart = TRUE]
            /\ response' = NoResponse
    /\ UNCHANGED <<products, addresses, carts, orders, invoices, year, edits,
                   service_postcodes>>

\* The guest quantity added to the quantity of the line.
MergedQuantity_adding(existing, supplied) == existing + supplied

\* sync_guest_cart line 158: max(existing_item.quantity, item_data.quantity).
\* The guest quantity written over the quantity of the line.
MergedQuantity_supplied(existing, supplied) == supplied

MergedQuantity(existing, supplied) == Max({existing, supplied})

\* sync_guest_cart lines 144-166: the loop over the supplied pairs.
RECURSIVE sync_guest_cart(_, _)
sync_guest_cart(items, input) ==
    IF input = <<>> THEN items
    ELSE LET item_data == Head(input)
             i == LineOf(items, item_data.product_id)
             merged ==
                 IF ~_get_active_product(item_data.product_id) THEN items
                 ELSE IF i # 0
                 THEN [items EXCEPT ![i].quantity = MergedQuantity(@, item_data.quantity)]
                 ELSE InsertRow(items, [product_id |-> item_data.product_id,
                                        quantity |-> item_data.quantity])
         IN  sync_guest_cart(merged, Tail(input))

\* The error the handler raises on the rows it loaded, None when it goes on.
CartFailure(op, items, input) ==
    IF op = "add_item" /\ ~_get_active_product(input[1].product_id)
    THEN "400 Product not found or unavailable"
    ELSE IF op = "update_item" /\ LineOf(items, input[1].product_id) = 0
    THEN "404 Item not found in cart"
    ELSE None

\* cart.items as the handler leaves it in the session.
CartHandler(op, items, input) ==
    CASE op = "add_item" -> add_item(items, input[1].product_id, input[1].quantity)
      [] op = "update_item" -> update_item(items, input[1].product_id, input[1].quantity)
      [] op = "remove_item" -> remove_item(items, input[1].product_id)
      [] op = "clear_cart" -> <<>>
      [] op = "sync_guest_cart" -> sync_guest_cart(items, input)

\* ---- the flush of a cart session: one statement per row the handler touched
Count(items, product_id) ==
    Cardinality({i \in 1..Len(items) : items[i].product_id = product_id})

\* The statement the unit of work emits for the row of product_id: the
\* handler touches at most the first row of a product.
RowWrite(loaded, after, product_id) ==
    IF Count(after, product_id) > Count(loaded, product_id) THEN "INSERT"
    ELSE IF Count(after, product_id) < Count(loaded, product_id) THEN "DELETE"
    ELSE IF /\ Count(loaded, product_id) > 0
            /\ after[LineOf(after, product_id)].quantity
                  # loaded[LineOf(loaded, product_id)].quantity
    THEN "UPDATE"
    ELSE "none"

\* One statement against the committed rows.  An INSERT adds a row whatever
\* rows the cart holds by now: cart_items has no unique constraint in
\* models/cart.py.  An UPDATE or a DELETE addresses the row it loaded.
WriteRow(committed, loaded, after, product_id) ==
    LET i == LineOf(committed, product_id)
        write == RowWrite(loaded, after, product_id)
    IN  CASE write = "INSERT" -> InsertRow(committed, after[LineOf(after, product_id)])
          [] write = "UPDATE" ->
                [committed EXCEPT ![i].quantity = after[LineOf(after, product_id)].quantity]
          [] write = "DELETE" -> IF i # 0 THEN RemoveAt(committed, i) ELSE committed
          [] OTHER -> committed

\* An UPDATE that matches no row raises StaleDataError.
StaleRows(committed, loaded, after) ==
    \E p \in Products :
        RowWrite(loaded, after, p) = "UPDATE" /\ LineOf(committed, p) = 0

RECURSIVE FlushRows(_, _, _, _)
FlushRows(committed, loaded, after, todo) ==
    IF todo = {} THEN committed
    ELSE LET p == CHOOSE x \in todo : \A y \in todo : Rank(x) <= Rank(y)
         IN  FlushRows(WriteRow(committed, loaded, after, p), loaded, after, todo \ {p})

\* The rows of the cart once the session has committed; clear_cart deletes
\* by cart_id (lines 132-134), the other handlers row by row.
CommitRows(committed, op, loaded, input) ==
    IF op = "clear_cart" THEN <<>>
    ELSE FlushRows(committed, loaded, CartHandler(op, loaded, input), Products)

\* The handler from the loaded cart to the end of the request: the error it
\* raises rolls the session back, the cart it inserted included; otherwise
\* its writes are flushed and committed.  limit caps the stored quantities.
CartFlush(r, limit) ==
    LET user_id == req[r].user_id
        op == req[r].op
        loaded == req[r].items
        input == req[r].input
        why == CartFailure(op, loaded, input)
        committed == IF get_cart(user_id) THEN carts[user_id] ELSE <<>>
        rows == CommitRows(committed, op, loaded, input)
        answer(outcome) ==
            [Response(op, outcome, r, "cart_loaded") EXCEPT !.user_id = user_id,
                                                            !.input = input]
        returned == IF op = "clear_cart" THEN NoResponse.cart ELSE _cart_to_response(rows)
    IN  /\ req[r].pc = "cart_loaded"
        /\ req' = [req EXCEPT ![r] = IdleReq]
        /\ IF why # None
           THEN /\ response' = answer(why)
                /\ UNCHANGED carts
           ELSE IF op # "clear_cart"
                   /\ StaleRows(committed, loaded, CartHandler(op, loaded, input))
           THEN /\ response' = answer("StaleDataError")
                /\ UNCHANGED carts
           ELSE /\ \A i \in 1..Len(rows) : rows[i].quantity <= limit
                /\ Len(rows) <= MaxLines
                /\ carts' = IF get_cart(user_id) \/ req[r].creates_cart
                            THEN SetCart(user_id, rows) ELSE carts
                /\ response' = [answer("200") EXCEPT !.cart = returned]
        /\ UNCHANGED <<products, addresses, orders, invoices, year, edits,
                       service_postcodes>>


\* --------------------------------------------------------- ProductService
update_product(product, field, value) ==
    CASE field = "price" -> [product EXCEPT !.price = value]
      [] field = "name" -> [product EXCEPT !.name = value]
      [] field = "is_active" -> [product EXCEPT !.is_active = value]

ProductUpdates ==
    {<<"price", v>> : v \in Prices} \cup {<<"name", v>> : v \in {"Milk", "Oat milk"}}
        \cup {<<"is_active", v>> : v \in BOOLEAN}

UpdateProduct(product_id, field, value) ==
    /\ edits < MaxEdits
    /\ edits' = edits + 1
    /\ products' = [products EXCEPT ![product_id] = update_product(@, field, value)]
    /\ response' = NoResponse
    /\ UNCHANGED <<addresses, carts, orders, invoices, year, req, service_postcodes>>

delete_product(product) == [product EXCEPT !.is_active = FALSE]

DeleteProduct(product_id) ==
    /\ edits < MaxEdits
    /\ edits' = edits + 1
    /\ products' = [products EXCEPT ![product_id] = delete_product(@)]
    /\ response' = NoResponse
    /\ UNCHANGED <<addresses, carts, orders, invoices, year, req, service_postcodes>>

\* --------------------------------------------------------- AddressService
UpdateAddress(address_id, user_id, street) ==
    /\ edits < MaxEdits
    /\ edits' = edits + 1
    /\ IF get_address_by_id(address_id, user_id)
       THEN addresses' = [addresses EXCEPT ![address_id].street = street]
       ELSE UNCHANGED addresses
    /\ response' = NoResponse
    /\ UNCHANGED <<products, carts, orders, invoices, year, req, service_postcodes>>

\* The rows _unset_default_addresses updates.
DefaultsOf(user_id) ==
    {a \in DOMAIN addresses : addresses[a].user_id = user_id /\ addresses[a].is_default}

\* Address rows other sessions have updated and not yet committed.
PendingUnsets(r) == UNION {req[x].unset : x \in Reqs \ {r}}

ApplyUnset(rows, unset) ==
    [a \in DOMAIN rows |->
        IF a \in unset THEN [rows[a] EXCEPT !.is_default = FALSE] ELSE rows[a]]

\* The id of the address the next create_address inserts.
NewAddressId == "a" \o ToString(5 + edits)

\* create_address up to the INSERT: the registry lookup and, for a default
\* address, the bulk UPDATE that unsets the user's defaults.  The UPDATE sees
\* the committed rows and waits for a row another session has updated.
CaBegin(r, user_id, data, limit) ==
    /\ req[r].pc = "idle"
    /\ edits < limit
    /\ IF ~verify_postcode(data.postcode)
       THEN /\ response' = [Response("create_address", "400 not in our service area", r, "idle")
                  EXCEPT !.user_id = user_id, !.input = <<data>>]
            /\ UNCHANGED <<req, edits>>
       ELSE /\ data.is_default = "True" => DefaultsOf(user_id) \cap PendingUnsets(r) = {}
            /\ req' = [req EXCEPT ![r] =
                  [IdleReq EXCEPT !.pc = "ca_unset", !.op = "create_address",
                                  !.user_id = user_id, !.data = data,
                                  !.address_id = NewAddressId,
                                  !.unset = IF data.is_default = "True"
                                            THEN DefaultsOf(user_id) ELSE {}]]
            /\ edits' = edits + 1
            /\ response' = NoResponse
    /\ UNCHANGED <<products, addresses, carts, orders, invoices, year, service_postcodes>>

\* Address(user_id=user_id, is_verified=True, **data.model_dump()).
NewAddress(user_id, data) ==
    [user_id |-> user_id, is_verified |-> TRUE, is_default |-> (data.is_default = "True"),
     postcode |-> data.postcode, street |-> data.street]

\* The INSERT of the address and the commit of the request.
CaCommit(r) ==
    /\ req[r].pc = "ca_unset"
    /\ req[r].op = "create_address"
    /\ addresses' = (req[r].address_id :> NewAddress(req[r].user_id, req[r].data))
                    @@ ApplyUnset(addresses, req[r].unset)
    /\ req' = [req EXCEPT ![r] = IdleReq]
    /\ response' = [Response("create_address", "201", r, "ca_unset")
          EXCEPT !.user_id = req[r].user_id, !.address_id = req[r].address_id,
                 !.input = <<req[r].data>>]
    /\ UNCHANGED <<products, carts, orders, invoices, year, edits, service_postcodes>>

\* An update that copies the postcode of the body as well.
update_address_every_field(address, data) ==
    [address EXCEPT !.street = IF data.street # None THEN data.street ELSE @,
                    !.postcode = IF data.postcode # None THEN data.postcode ELSE @,
                    !.is_default = IF data.is_default # None
                                   THEN data.is_default = "True" ELSE @]

\* update_address lines 116-117: setattr of every field the body carries.
\* The body is read as an AddressUpdate, which has no postcode, city,
\* is_verified or user_id: whatever else the body carries is dropped.
update_address(address, data) ==
    [address EXCEPT !.street = IF data.street # None THEN data.street ELSE @,
                    !.is_default = IF data.is_default # None
                                   THEN data.is_default = "True" ELSE @]

\* update_address up to the flush: the lookup by id and owner and, when the
\* body sets is_default, the bulk UPDATE.
UaBegin(r, address_id, user_id, data, limit) ==
    /\ req[r].pc = "idle"
    /\ edits < limit
    /\ IF ~get_address_by_id(address_id, user_id)
       THEN /\ response' = [Response("update_address", "404 Address not found", r, "idle")
                  EXCEPT !.user_id = user_id, !.address_id = address_id,
                         !.input = <<data>>]
            /\ UNCHANGED <<req, edits>>
       ELSE /\ data.is_default = "True" => DefaultsOf(user_id) \cap PendingUnsets(r) = {}
            /\ req' = [req EXCEPT ![r] =
                  [IdleReq EXCEPT !.pc = "ua_unset", !.op = "update_address",
                                  !.user_id = user_id, !.data = data,
                                  !.address_id = address_id,
                                  !.unset = IF data.is_default = "True"
                                            THEN DefaultsOf(user_id) ELSE {}]]
            /\ edits' = edits + 1
            /\ response' = NoResponse
    /\ UNCHANGED <<products, addresses, carts, orders, invoices, year, service_postcodes>>

\* The UPDATE of the loaded row by primary key and the commit; the UPDATE of
\* a row deleted since it was loaded raises StaleDataError.
UaCommit(r) ==
    LET address_id == req[r].address_id
        answer(outcome) ==
            [Response("update_address", outcome, r, "ua_unset")
                EXCEPT !.user_id = req[r].user_id, !.address_id = address_id,
                       !.input = <<req[r].data>>]
    IN  /\ req[r].pc = "ua_unset"
        /\ req[r].op = "update_address"
        /\ req' = [req EXCEPT ![r] = IdleReq]
        /\ IF address_id \notin DOMAIN addresses
           THEN /\ response' = answer(IF req[r].data = NoAddressData
                                      THEN "200" ELSE "StaleDataError")
                /\ addresses' = IF req[r].data = NoAddressData
                                THEN ApplyUnset(addresses, req[r].unset) ELSE addresses
           ELSE /\ response' = answer("200")
                /\ addresses' = [ApplyUnset(addresses, req[r].unset) EXCEPT
                                    ![address_id] = update_address(@, req[r].data)]
        /\ UNCHANGED <<products, carts, orders, invoices, year, edits, service_postcodes>>

\* A referential policy that lets the delete through.
ReferencedByOrder_unenforced(address_id) == FALSE

\* orders.address_id is NOT NULL, ON DELETE RESTRICT (models/order.py:63-67):
\* the unit of work cannot detach the orders of the address it deletes.
ReferencedByOrder(address_id) == address_id \in CommittedAddressRefs

\* delete_address and its endpoint.  The delete of a referenced address
\* raises IntegrityError and the request is rolled back; the delete waits
\* while an uncommitted order row refers to the address or another session
\* has updated the row.
DeleteAddress(address_id, user_id, limit) ==
    /\ edits < limit
    /\ edits' = edits + 1
    /\ address_id \notin PendingAddressRefs
    /\ address_id \notin PendingUnsets(None)
    /\ LET outcome == IF ~get_address_by_id(address_id, user_id)
                      THEN "404 Address not found"
                      ELSE IF ReferencedByOrder(address_id) THEN "IntegrityError"
                      ELSE "204"
       IN  /\ addresses' = IF outcome = "204"
                           THEN [a \in DOMAIN addresses \ {address_id} |-> addresses[a]]
                           ELSE addresses
           /\ response' = [Response("delete_address", outcome, None, "idle")
                 EXCEPT !.user_id = user_id, !.address_id = address_id]
    /\ UNCHANGED <<products, carts, orders, invoices, year, req, service_postcodes>>

\* GET /addresses/{address_id}.
GetAddress(address_id, user_id) ==
    /\ response' = [Response("get_address",
                             IF get_address_by_id(address_id, user_id)
                             THEN "200" ELSE "404 Address not found", None, "idle")
          EXCEPT !.user_id = user_id, !.address_id = address_id]
    /\ UNCHANGED <<products, addresses, carts, orders, invoices, year, edits, req,
                   service_postcodes>>

\* GET /orders/{order_id}.
GetOrder(order_id, user_id) ==
    /\ response' = [Response("get_order",
                             IF get_order(order_id, user_id)
                             THEN "200" ELSE "404 Order not found", None, "idle")
          EXCEPT !.user_id = user_id, !.order_id = order_id]
    /\ UNCHANGED <<products, addresses, carts, orders, invoices, year, edits, req,
                   service_postcodes>>

\* GET /orders/{order_id}/invoice.
GetInvoice(order_id, user_id) ==
    /\ response' = [Response("get_invoice",
                             IF get_order(order_id, user_id)
                             THEN "200" ELSE "404 Order not found", None, "idle")
          EXCEPT !.user_id = user_id, !.order_id = order_id]
    /\ UNCHANGED <<products, addresses, carts, orders, invoices, year, edits, req,
                   service_postcodes>>

\* ------------------------------------------- the service-postcode registry
\* add_service_postcode and its endpoint: postcode is unique, and the
\* endpoint answers 400 to whatever the insert raises.
AddServicePostcode(postcode, city_name, limit) ==
    /\ edits < limit
    /\ edits' = edits + 1
    /\ IF postcode \in DOMAIN service_postcodes
       THEN /\ response' = Response("admin_add_postcode", "400", None, "idle")
            /\ UNCHANGED service_postcodes
       ELSE /\ response' = Response("admin_add_postcode", "201", None, "idle")
            /\ service_postcodes' =
                  (postcode :> [city_name |-> city_name, is_active |-> TRUE])
                  @@ service_postcodes
    /\ UNCHANGED <<products, addresses, carts, orders, invoices, year, req>>

\* remove_service_postcode and its endpoint.
RemoveServicePostcode(postcode, limit) ==
    /\ edits < limit
    /\ edits' = edits + 1
    /\ IF postcode \notin DOMAIN service_postcodes
       THEN /\ response' = Response("admin_remove_postcode", "404", None, "idle")
            /\ UNCHANGED service_postcodes
       ELSE /\ response' = Response("admin_remove_postcode", "204", None, "idle")
            /\ service_postcodes' =
                  [x \in DOMAIN service_postcodes \ {postcode} |-> service_postcodes[x]]
    /\ UNCHANGED <<products, addresses, carts, orders, invoices, year, req>>

\* ------------------------------------------------------------ admin gate
\* settings.admin_api_key.
AdminApiKey == "dev-admin-key"

\* dependencies.py lines 56-65: the X-Admin-API-Key header, None when the
\* request carries none.  The dependency raises unless this holds.
verify_admin_api_key(x_admin_api_key) ==
    ~(x_admin_api_key = None \/ x_admin_api_key = "" \/ x_admin_api_key # AdminApiKey)

AdminEndpoints ==
    {"admin_list_products", "admin_create_product", "admin_update_product",
     "admin_delete_product", "admin_list_orders", "admin_get_order",
     "admin_update_order_status", "admin_list_postcodes", "admin_add_postcode",
     "admin_remove_postcode"}

\* An admin request whose key the dependency refuses: the HTTPException it
\* raises is the answer, and the endpoint does not run.  user_id is the user
\* the request is logged in as, which no admin route looks at.
AdminReject(endpoint, x_admin_api_key, user_id) ==
    /\ ~verify_admin_api_key(x_admin_api_key)
    /\ response' = [Response(endpoint, "401", None, "verify_admin_api_key")
          EXCEPT !.user_id = user_id, !.input = <<x_admin_api_key>>]
    /\ UNCHANGED <<products, addresses, carts, orders, invoices, year, edits, req,
                   service_postcodes>>

\* The admin endpoints behind the gate: the endpoint runs once the
\* dependency has returned.
AdminUpdateProduct(x_admin_api_key, product_id, field, value) ==
    /\ verify_admin_api_key(x_admin_api_key)
    /\ UpdateProduct(product_id, field, value)

AdminDeleteProduct(x_admin_api_key, product_id) ==
    /\ verify_admin_api_key(x_admin_api_key)
    /\ DeleteProduct(product_id)

AdminUpdateOrderStatus(x_admin_api_key, r, order_id, new_status, notes, changed_by, limit) ==
    /\ verify_admin_api_key(x_admin_api_key)
    /\ UosLoad(r, order_id, new_status, notes, changed_by, limit)

AdminAddPostcode(x_admin_api_key, postcode, city_name, limit) ==
    /\ verify_admin_api_key(x_admin_api_key)
    /\ AddServicePostcode(postcode, city_name, limit)

AdminRemovePostcode(x_admin_api_key, postcode, limit) ==
    /\ verify_admin_api_key(x_admin_api_key)
    /\ RemoveServicePostcode(postcode, limit)

\* ------------------------------------------------------------------ clock
NewYear ==
    /\ year < MaxYear
    /\ year' = year + 1
    /\ response' = NoResponse
    /\ UNCHANGED <<products, addresses, carts, orders, invoices, edits, req, service_postcodes>>

\* ------------------------------------------------------------------ Next
UosInputs == {<<None, None>>, <<"left at door", "u2">>}

\* The checkout of one shopper, one order-workflow request in flight at a
\* time, among the cart, catalogue and address-book requests.
Shoppers == {"u1"}
Next ==
    \/ \E u \in Shoppers, a \in AddrIds : CoBegin("r1", u, a, MaxOrders)
    \/ CoGenerateInvoiceNumber("r1")
    \/ CoFlushOrder("r1")
    \/ CoFinish("r1")
    \/ \E why \in {"OperationalError", "cancelled"} : CoAbort("r1", why)
    \/ \E o \in 1..(MaxOrders + 1), s \in OrderStatus, n \in UosInputs :
          UosLoad("r1", o, s, n[1], n[2], MaxHistory)
    \/ UosFlush("r1")
    \/ UosAbort("r1")
    \/ \E u \in Shoppers, p \in Products, q \in 1..MaxQty : AddItem(u, p, q)
    \/ \E u \in Shoppers, p \in Products, q \in 0..MaxQty : UpdateItem(u, p, q)
    \/ \E u \in Shoppers, p \in Products : RemoveItem(u, p)
    \/ \E u \in Shoppers : ClearCart(u)
    \/ \E p \in Products, f \in ProductUpdates : UpdateProduct(p, f[1], f[2])
    \/ \E p \in Products : DeleteProduct(p)
    \/ \E a \in AddrIds, u \in Users, s \in Streets : UpdateAddress(a, u, s)
    \/ \E a \in AddrIds, u \in Users : DeleteAddress(a, u, MaxEdits)

Spec == Init /\ [][Next]_vars

\* Two checkouts in flight at once over the turn of the year.  The carts
\* have been filled: u1 holds one line, u2 one line of each product.
RaceInit ==
    /\ products = [p \in Products |-> [price |-> 200, name |-> "Milk", is_active |-> TRUE]]
    /\ addresses = InitialAddresses
    /\ carts = ("u1" :> <<[product_id |-> "p1", quantity |-> 1]>>)
            @@ ("u2" :> <<[product_id |-> "p1", quantity |-> 2],
                          [product_id |-> "p2", quantity |-> 1]>>)
    /\ orders = <<>>
    /\ invoices = <<>>
    /\ year = 1
    /\ edits = 0
    /\ req = [r \in Reqs |-> IdleReq]
    /\ response = NoResponse
    /\ service_postcodes = InitialServicePostcodes

RaceNext ==
    \/ \E r \in Reqs, u \in Users, a \in {"a1", "a2"} : CoBegin(r, u, a, MaxRaceOrders)
    \/ \E r \in Reqs : CoGenerateInvoiceNumber(r)
    \/ \E r \in Reqs : CoFlushOrder(r)
    \/ \E r \in Reqs : CoFinish(r)
    \/ \E r \in Reqs : CoAbort(r, "cancelled")
    \/ NewYear

RaceSpec == RaceInit /\ [][RaceNext]_vars

\* The status state machine of one order, two status updates in flight at
\* once.  The order is the one u1's first checkout of one unit of p1 leaves.
FirstOrder ==
    [user_id |-> "u1",
     address_id |-> "a1",
     address_snapshot |-> to_snapshot(InitialAddresses["a1"]),
     status |-> "PLACED",
     subtotal |-> 200,
     delivery_fee |-> DeliveryFee,
     total |-> 200 + DeliveryFee,
     invoice_number |-> [year |-> 1, seq |-> 1],
     items |-> <<[product_id |-> "p1",
                  product_snapshot |-> [name |-> "Milk", sku |-> "p1"],
                  quantity |-> 1, price_at_purchase |-> 200, line_total |-> 200]>>,
     status_history |-> InitialHistory]

StatusInit ==
    /\ products = [p \in Products |-> [price |-> 200, name |-> "Milk", is_active |-> TRUE]]
    /\ addresses = InitialAddresses
    /\ carts = ("u1" :> <<>>)
    /\ orders = <<FirstOrder>>
    /\ invoices = <<[order_id |-> 1, invoice_number |-> [year |-> 1, seq |-> 1]]>>
    /\ year = 1
    /\ edits = 0
    /\ req = [r \in Reqs |-> IdleReq]
    /\ response = NoResponse
    /\ service_postcodes = InitialServicePostcodes

StatusNext ==
    \/ \E r \in Reqs, o \in 1..2, s \in OrderStatus, n \in UosInputs :
          UosLoad(r, o, s, n[1], n[2], MaxChain)
    \/ \E r \in Reqs : UosFlush(r)
    \/ \E r \in Reqs : UosAbort(r)

StatusSpec == StatusInit /\ [][StatusNext]_vars

\* The cart requests of one shopper, one at a time, over a catalogue that
\* loses a product.  Request bodies carry quantities inside and outside the
\* schema's range and a product the catalogue does not hold.
QtyInputs == {-1, 0, QuantityLe + 1} \cup 1..MaxInputQty
CartPairs == [product_id : Products \cup {"p9"}, quantity : QtyInputs]
OnePair == {<<x>> : x \in CartPairs}
InRangePairs == {x \in CartPairs : x.quantity \in 1..MaxInputQty}
SyncInputs == {<<>>} \cup OnePair \cup {<<x, y>> : x \in InRangePairs, y \in InRangePairs}

CartInputs(op) ==
    CASE op = "sync_guest_cart" -> SyncInputs
      [] op = "clear_cart" -> {<<>>}
      [] op = "remove_item" -> {<<[product_id |-> p, quantity |-> 0]>> : p \in Products \cup {"p9"}}
      [] OTHER -> OnePair

CartNext ==
    \/ \E op \in CartOps, u \in Shoppers :
          \E input \in CartInputs(op) : CartReject("r1", op, u, input)
    \/ \E op \in CartOps, u \in Shoppers :
          \E input \in CartInputs(op) : CartSelect("r1", op, u, input)
    \/ CartCreate("r1")
    \/ CartFlush("r1", MaxLineQty)
    \/ \E p \in Products : DeleteProduct(p)

CartSpec == Init /\ [][CartNext]_vars

\* Two cart requests of one shopper in flight at once, the first of which
\* finds no cart.
CartRaceOps == {"add_item", "sync_guest_cart", "remove_item"}
CartRaceInputs == {<<[product_id |-> p, quantity |-> q]>> : p \in Products, q \in 1..MaxQty}

CartRaceNext ==
    \/ \E r \in Reqs, op \in CartRaceOps, input \in CartRaceInputs :
          CartSelect(r, op, "u1", input)
    \/ \E r \in Reqs : CartCreate(r)
    \/ \E r \in Reqs : CartFlush(r, MaxQty)

CartRaceSpec == Init /\ [][CartRaceNext]_vars

\* The address books of two users and the registry, two requests in flight
\* at once, next to the order u1 has placed to a1.
Postcodes == {"2100", "1000", "9999"}
CreateData == [postcode : Postcodes, street : {"Elm 1"}, is_default : {"True", "False"}]
UpdateData ==
    {[postcode |-> "9999", street |-> "Oak 2", is_default |-> None],
     [postcode |-> None, street |-> None, is_default |-> "True"],
     [postcode |-> None, street |-> None, is_default |-> "False"]}
AddressIds == AddrIds \cup {"a5", "a9"}

AddressNext ==
    \/ \E r \in Reqs, u \in Users, data \in CreateData : CaBegin(r, u, data, MaxAddressEdits)
    \/ \E r \in Reqs : CaCommit(r)
    \/ \E r \in Reqs, a \in AddressIds, u \in Users, data \in UpdateData :
          UaBegin(r, a, u, data, MaxAddressEdits)
    \/ \E r \in Reqs : UaCommit(r)
    \/ \E a \in AddressIds, u \in Users : DeleteAddress(a, u, MaxAddressEdits)
    \/ \E a \in AddressIds, u \in Users : GetAddress(a, u)
    \/ \E o \in 1..2, u \in Users : GetOrder(o, u)
    \/ \E o \in 1..2, u \in Users : GetInvoice(o, u)
    \/ AddServicePostcode("9999", "Aarhus", MaxAddressEdits)
    \/ RemoveServicePostcode("2100", MaxAddressEdits)

AddressSpec == StatusInit /\ [][AddressNext]_vars

\* A shopper with a filled cart who adds an address and checks out, while
\* the admin takes postcode 2100 out of the registry.
RegistryNext ==
    \/ \E data \in CreateData : CaBegin("r1", "u1", data, MaxAddressEdits)
    \/ CaCommit("r1")
    \/ RemoveServicePostcode("2100", MaxAddressEdits)
    \/ \E a \in AddressIds : CoBegin("r1", "u1", a, MaxOrders)
    \/ CoGenerateInvoiceNumber("r1")
    \/ CoFlushOrder("r1")
    \/ CoFinish("r1")
    \/ CoAbort("r1", "cancelled")

RegistrySpec == RaceInit /\ [][RegistryNext]_vars

\* The admin API: requests with and without the key, next to the order u1
\* has placed.
AdminKeys == {None, "", "wrong-key", AdminApiKey}

AdminNext ==
    \/ \E e \in AdminEndpoints, k \in AdminKeys, u \in Users \cup {None} :
          AdminReject(e, k, u)
    \/ \E k \in AdminKeys, p \in Products, f \in ProductUpdates :
          AdminUpdateProduct(k, p, f[1], f[2])
    \/ \E k \in AdminKeys, p \in Products : AdminDeleteProduct(k, p)
    \/ \E k \in AdminKeys, o \in 1..2, st \in OrderStatus, n \in UosInputs :
          AdminUpdateOrderStatus(k, "r1", o, st, n[1], n[2], MaxHistory)
    \/ UosFlush("r1")
    \/ UosAbort("r1")
    \/ \E k \in AdminKeys : AdminAddPostcode(k, "9999", "Aarhus", MaxEdits)
    \/ \E k \in AdminKeys : AdminRemovePostcode(k, "2100", MaxEdits)

AdminSpec == StatusInit /\ [][AdminNext]_vars

\* Checkouts taken one at a time over the turn of the year, after an
\* invoice table whose last rows are given: the rows before them are left
\* out, the numbers of a year rising with the ids.
LastSixDigit == ToInt([i \in 1..PadWidth |-> 9])
InvoiceHistories ==
    {<<>>,
     <<[year |-> 1, seq |-> 1]>>,
     <<[year |-> 1, seq |-> 9]>>,
     <<[year |-> 1, seq |-> LastSixDigit - 1]>>,
     <<[year |-> 1, seq |-> 4], [year |-> 2, seq |-> 1]>>}

PlacedOrder(invoice_number) == [FirstOrder EXCEPT !.invoice_number = invoice_number]

InvoiceInit ==
    /\ products = [p \in Products |-> [price |-> 200, name |-> "Milk", is_active |-> TRUE]]
    /\ addresses = InitialAddresses
    /\ carts = ("u1" :> <<>>)
    /\ \E h \in InvoiceHistories :
          /\ orders = [i \in 1..Len(h) |-> PlacedOrder(h[i])]
          /\ invoices = [i \in 1..Len(h) |-> [order_id |-> i, invoice_number |-> h[i]]]
          /\ year = IF h = <<>> THEN 1 ELSE h[Len(h)].year
    /\ edits = 0
    /\ req = [r \in Reqs |-> IdleReq]
    /\ response = NoResponse
    /\ service_postcodes = InitialServicePostcodes

InvoiceNext ==
    \/ CoBegin("r1", "u1", "a1", MaxInvoiceOrders + 2)
    \/ CoGenerateInvoiceNumber("r1")
    \/ CoFlushOrder("r1")
    \/ CoFinish("r1")
    \/ CoAbort("r1", "cancelled")
    \/ AddItem("u1", "p1", 1)
    \/ NewYear

InvoiceSpec == InvoiceInit /\ [][InvoiceNext]_vars

\* ============================================================== properties
IsPrefix(a, b) == Len(a) <= Len(b) /\ SubSeq(b, 1, Len(a)) = a

CoPcs == {"co_priced", "co_numbered", "co_flushed"}

\* The step ends a create_order request of slot r with the order committed.
Created(r) ==
    /\ response'.op = "create_order"
    /\ response'.req = r
    /\ response'.outcome = "201"

\* The step is a step of a create_order request of slot r.
CreateOrderStep(r) ==
    \/ response'.op = "create_order" /\ response'.req = r
    \/ req'[r] # req[r] /\ req'[r].pc \in CoPcs

\* The table of section 4.3, written out.
TransitionTable ==
    {<<"PLACED", "CONFIRMED">>, <<"PLACED", "CANCELED">>,
     <<"CONFIRMED", "PACKING">>, <<"CONFIRMED", "CANCELED">>,
     <<"PACKING", "OUT_FOR_DELIVERY">>, <<"PACKING", "CANCELED">>,
     <<"OUT_FOR_DELIVERY", "DELIVERED">>, <<"OUT_FOR_DELIVERY", "CANCELED">>}

\* C1: a status update of an order it loads in status A, to status B, passes
\* the validation iff <<A, B>> is in the table (so never for A = B, nor from
\* DELIVERED or CANCELED); a rejected update answers "Invalid status
\* transition" and leaves every order, with its status and history, as it was;
\* an update that ends successfully was validated and sets the status to B.
C1_TransitionIffListed ==
    [][/\ \A r \in Reqs :
            (req[r].pc = "idle" /\ req'[r].pc = "uos_validated") =>
                /\ req'[r].current_status = orders[req'[r].order_id].status
                /\ <<req'[r].current_status, req'[r].new_status>> \in TransitionTable
       /\ (response'.op = "update_order_status"
             /\ response'.outcome = "Invalid status transition") =>
                /\ response'.from_status = orders[response'.order_id].status
                /\ <<response'.from_status, response'.to_status>> \notin TransitionTable
                /\ UNCHANGED <<orders, req>>
       /\ (response'.op = "update_order_status" /\ response'.outcome = "200") =>
                /\ <<response'.from_status, response'.to_status>> \in TransitionTable
                /\ orders'[response'.order_id].status = response'.to_status
      ]_vars

\* C1 witness: an order was taken to DELIVERED and a request to cancel it was
\* rejected.
C1_Witness ==
    /\ response.op = "update_order_status"
    /\ response.outcome = "Invalid status transition"
    /\ response.from_status = "DELIVERED"
    /\ response.to_status = "CANCELED"
    /\ orders[response.order_id].status = "DELIVERED"

\* C2: the committed invoices of one year carry strictly increasing sequence
\* numbers in the order of their ids (so no number twice), whatever the
\* interleaving of the checkouts.
C2_InvoiceNumbersIncrease ==
    \A i, j \in 1..Len(invoices) :
        (i < j /\ invoices[i].invoice_number.year = invoices[j].invoice_number.year)
            => invoices[i].invoice_number.seq < invoices[j].invoice_number.seq

\* C2 witness: three invoices of the first year have been committed.
C2_Witness == Cardinality(InvoicesOfYear(1)) >= 3

C4_FailedCheckoutLeavesNothing ==
    [][\A r \in Reqs :
          (CreateOrderStep(r) /\ ~Created(r)) =>
              /\ UNCHANGED <<orders, invoices, carts>>
              /\ (response'.op = "create_order" => req'[r] = IdleReq)
      ]_vars

\* C4 witness: a checkout failed at the second flush, after its order row had
\* been inserted; no order exists and the cart still has its lines.
C4_Witness ==
    /\ response.op = "create_order"
    /\ response.outcome = "OperationalError"
    /\ response.at = "co_flushed"
    /\ orders = <<>>
    /\ invoices = <<>>
    /\ carts["u1"] # <<>>

\* The items of order_items_data are priced with the products as they are now.
PricedNow(order_items_data) ==
    \A k \in 1..Len(order_items_data) :
        LET item == order_items_data[k] IN
        /\ item.price_at_purchase = products[item.product_id].price
        /\ item.product_snapshot = ProductSnapshot(item.product_id)

\* The amounts of one order add up.
AmountsAddUp(order) ==
    /\ \A k \in 1..Len(order.items) :
          order.items[k].line_total
              = order.items[k].price_at_purchase * order.items[k].quantity
    /\ order.subtotal = SumLineTotals(order.items)
    /\ order.delivery_fee = DeliveryFee
    /\ order.total = order.subtotal + order.delivery_fee

\* C5: every order has line_total = price_at_purchase * quantity on each item,
\* subtotal = the sum of the line totals, delivery_fee = the configured fee
\* whatever the address, and total = subtotal + delivery_fee; the items are
\* priced with the products' prices at the moment create_order reads the cart,
\* and those are the items the order is committed with.
C5_TotalsFromCurrentPrices ==
    [][/\ \A i \in 1..Len(orders') : AmountsAddUp(orders'[i])
       /\ \A r \in Reqs :
            /\ (req[r].pc = "idle" /\ req'[r].pc = "co_priced") =>
                  /\ PricedNow(req'[r].order_items_data)
                  /\ req'[r].subtotal = SumLineTotals(req'[r].order_items_data)
                  /\ req'[r].delivery_fee = DeliveryFee
                  /\ req'[r].total = req'[r].subtotal + DeliveryFee
            /\ Created(r) =>
                  /\ orders'[Len(orders')].items = req[r].order_items_data
                  /\ orders'[Len(orders')].subtotal = req[r].subtotal
                  /\ orders'[Len(orders')].total = req[r].total
      ]_vars

\* C5 witness: an order of two items, one of them twice at the changed price,
\* delivered to the second postcode at the same fee.
C5_Witness ==
    \E i \in 1..Len(orders) :
        /\ Len(orders[i].items) = 2
        /\ \E k \in 1..2 : /\ orders[i].items[k].quantity = 2
                           /\ orders[i].items[k].price_at_purchase = 350
                           /\ orders[i].items[k].line_total = 700
        /\ orders[i].address_snapshot.postcode = "2300"
        /\ orders[i].total = orders[i].subtotal + 2900

\* C6: create_order goes past its checks only if the address exists, belongs
\* to the user and is verified, the cart exists and has a line, and some line
\* is of an active product; otherwise it ends with one of its three business
\* errors and creates nothing.
C6_CreateOrderPreconditions ==
    [][\A r \in Reqs :
          /\ (req[r].pc = "idle" /\ req'[r].pc = "co_priced") =>
                LET user_id == req'[r].user_id
                    address_id == req'[r].address_id
                IN  /\ address_id \in DOMAIN addresses
                    /\ addresses[address_id].user_id = user_id
                    /\ addresses[address_id].is_verified
                    /\ user_id \in DOMAIN carts
                    /\ carts[user_id] # <<>>
                    /\ \E k \in 1..Len(carts[user_id]) :
                          products[carts[user_id][k].product_id].is_active
          /\ (response'.op = "create_order" /\ response'.req = r
                /\ response'.at = "idle") =>
                /\ response'.outcome \in {"Please select a verified delivery address",
                                          "Your cart is empty",
                                          "No valid items in cart"}
                /\ UNCHANGED <<orders, invoices, carts, req>>
      ]_vars

\* C6 witness: a cart whose only lines are of inactive products was refused.
C6_Witness ==
    /\ response.op = "create_order"
    /\ response.outcome = "No valid items in cart"
    /\ carts["u1"] # <<>>
    /\ orders = <<>>

\* C7: a successful update_order_status appends exactly one history entry,
\* with the new status and the note and actor of the request, and sets the
\* order's status to it; in every step each order's history only grows at its
\* end and no order disappears.
C7_HistoryAppendOnly ==
    [][/\ Len(orders') >= Len(orders)
       /\ \A i \in 1..Len(orders) :
             IsPrefix(orders[i].status_history, orders'[i].status_history)
       /\ (response'.op = "update_order_status" /\ response'.outcome = "200") =>
             LET o == response'.order_id
                 r == response'.req
             IN  /\ orders'[o].status_history
                       = Append(orders[o].status_history,
                                [status |-> req[r].new_status,
                                 notes |-> req[r].notes,
                                 changed_by |-> req[r].changed_by])
                 /\ orders'[o].status = req[r].new_status
                 /\ response'.to_status = req[r].new_status
      ]_vars

\* C7 witness: an order with three history entries whose last one carries a
\* note and an actor.
C7_Witness ==
    \E i \in 1..Len(orders) :
        LET h == orders[i].status_history IN
        /\ Len(h) = 3
        /\ h[3].notes = "left at door"
        /\ h[3].changed_by = "u2"
        /\ h[2].notes = None
        /\ orders[i].status = h[3].status

\* The invoice rows of one order.
InvoicesOf(order_id) == {i \in 1..Len(invoices) : invoices[i].order_id = order_id}

OrderWellFormed(order_id) ==
    LET order == orders[order_id] IN
    /\ Len(order.items) >= 1
    /\ Cardinality(InvoicesOf(order_id)) = 1
    /\ \A i \in InvoicesOf(order_id) :
          invoices[i].invoice_number = order.invoice_number
    /\ Len(order.status_history) >= 1
    /\ order.status_history[1].status = "PLACED"
    /\ order.status_history[1].notes = "Order placed by customer"

\* C8: every committed order has at least one item, exactly one invoice row,
\* of the order's own invoice number, and a history whose first entry is
\* PLACED with the note of the placement; an order just created is PLACED.
C8_OrderWellFormed ==
    [][/\ \A o \in 1..Len(orders') : OrderWellFormed(o)'
       /\ \A r \in Reqs :
             Created(r) =>
                /\ Len(orders') = Len(orders) + 1
                /\ response'.order_id = Len(orders')
                /\ orders'[Len(orders')].status = "PLACED"
                /\ Len(orders'[Len(orders')].status_history) = 1
      ]_vars

\* C8 witness: create_order has just answered with a PLACED order of one
\* history entry and one invoice.
C8_Witness ==
    /\ response.op = "create_order"
    /\ response.outcome = "201"
    /\ orders[response.order_id].status = "PLACED"
    /\ orders[response.order_id].status_history = InitialHistory
    /\ InvoicesOf(response.order_id) = {response.order_id}

\* C9: the step that commits a create_order leaves the user's cart without a
\* line, the lines it did not order included.
C9_CartEmptiedOnSuccess ==
    [][\A r \in Reqs :
          Created(r) =>
              /\ req[r].user_id \in DOMAIN carts'
              /\ carts'[req[r].user_id] = <<>>
      ]_vars

\* C9 witness: the cart held two lines when the order was committed, the
\* order has one item, a product is inactive, and the cart is empty.
C9_Witness ==
    /\ response.op = "create_order"
    /\ response.outcome = "201"
    /\ response.lines = 2
    /\ Len(orders[response.order_id].items) = 1
    /\ \E p \in Products : ~products[p].is_active
    /\ carts[orders[response.order_id].user_id] = <<>>

\* The fields of an order that are fixed at its creation.
Frozen(order) ==
    [user_id |-> order.user_id,
     address_snapshot |-> order.address_snapshot,
     items |-> order.items,
     subtotal |-> order.subtotal,
     delivery_fee |-> order.delivery_fee,
     total |-> order.total,
     invoice_number |-> order.invoice_number]

\* C10: no step removes an order or changes its address snapshot, its items
\* (snapshot, quantity, price, line total), its subtotal, fee, total or
\* invoice number, or its invoice row; its history only grows.
C10_OrderFrozen ==
    [][/\ Len(orders') >= Len(orders)
       /\ \A i \in 1..Len(orders) :
             /\ Frozen(orders'[i]) = Frozen(orders[i])
             /\ IsPrefix(orders[i].status_history, orders'[i].status_history)
       /\ Len(invoices') >= Len(invoices)
       /\ \A i \in 1..Len(invoices) : invoices'[i] = invoices[i]
      ]_vars

\* C10 witness: an order that has left PLACED while the address it was sent
\* to has since been rewritten; the order keeps the street it was placed with.
C10_Witness ==
    \E i \in 1..Len(orders) :
        /\ orders[i].status # "PLACED"
        /\ orders[i].address_id \in DOMAIN addresses
        /\ addresses[orders[i].address_id].street # orders[i].address_snapshot.street
        /\ orders[i].address_snapshot.street = "Elm 1"

\* C11: once an order is DELIVERED or CANCELED no step changes it: its status
\* and its history stay as they are.
C11_TerminalNeverChanges ==
    [][\A o \in 1..Len(orders) :
          orders[o].status \in {"DELIVERED", "CANCELED"} => orders'[o] = orders[o]
      ]_vars

\* The rows of a cart that belong to other products than product_id.
OtherLines(items, product_id) ==
    SelectSeq(items, LAMBDA l : l.product_id # product_id)

\* The committed rows of a user's cart, none when the user has no cart.
CartOf(user_id) == IF get_cart(user_id) THEN carts[user_id] ELSE <<>>

\* The step by which request r, running op on its loaded cart, ends.
CartStep(r, op) ==
    /\ req[r].pc = "cart_loaded"
    /\ req[r].op = op
    /\ req'[r].pc = "idle"

\* C12: add_item for an active product p and a quantity q in 1..99 leaves
\* exactly one line for p: with the quantity k + q when the cart held a line
\* of quantity k for p, with the quantity q when it held none; the lines of
\* the other products are unchanged.
C12_AddItemSumsOrCreates ==
    [][\A r \in Reqs :
          LET user_id == req[r].user_id
              p == req[r].input[1].product_id
              q == req[r].input[1].quantity
              i == LineOf(CartOf(user_id), p)
          IN  (/\ CartStep(r, "add_item")
               /\ _get_active_product(p)
               /\ q \in 1..QuantityLe
               /\ CartOf(user_id) = req[r].items)
              => /\ response'.outcome = "200"
                 /\ user_id \in DOMAIN carts'
                 /\ Count(carts'[user_id], p) = 1
                 /\ carts'[user_id][LineOf(carts'[user_id], p)].quantity =
                       IF i # 0 THEN CartOf(user_id)[i].quantity + q ELSE q
                 /\ OtherLines(carts'[user_id], p) = OtherLines(CartOf(user_id), p)
      ]_vars

\* add_item has just raised a line above any quantity a request can carry,
\* next to the line of the other product.
C12_Witness ==
    /\ response.op = "add_item"
    /\ response.outcome = "200"
    /\ get_cart("u1")
    /\ Len(carts["u1"]) = 2
    /\ carts["u1"][1].quantity = MaxLineQty
    /\ carts["u1"][2].quantity = 1

\* The rows of a cart that belong to product_id.
LinesOf(items, product_id) ==
    SelectSeq(items, LAMBDA l : l.product_id = product_id)

\* The quantities a request body supplies for product_id.
Supplied(input, product_id) ==
    {input[i].quantity : i \in {j \in 1..Len(input) : input[j].product_id = product_id}}

\* C13: sync_guest_cart leaves, for every supplied active product, one line
\* holding the larger of the quantity the cart held and the quantity supplied
\* (the supplied quantity when the cart held no line); supplied products that
\* are unknown or inactive add nothing, and the lines of products the request
\* does not name are unchanged.
C13_SyncKeepsLarger ==
    [][\A r \in Reqs :
          LET user_id == req[r].user_id
              before == CartOf(user_id)
              after == IF user_id \in DOMAIN carts' THEN carts'[user_id] ELSE <<>>
          IN  (/\ CartStep(r, "sync_guest_cart")
               /\ before = req[r].items)
              => /\ response'.outcome = "200"
                 /\ \A p \in Products \cup {"p9"} :
                       LET Q == Supplied(req[r].input, p)
                           i == LineOf(before, p)
                       IN  IF Q # {} /\ _get_active_product(p)
                           THEN /\ Count(after, p) = 1
                                /\ after[LineOf(after, p)].quantity =
                                      IF i # 0 THEN Max(Q \cup {before[i].quantity})
                                      ELSE Max(Q)
                           ELSE LinesOf(after, p) = LinesOf(before, p)
      ]_vars

\* A sync that supplied 2 of p1 and 3 of p2 has left the 5 of p1 the cart
\* held and a line of 3 for p2.
C13_Witness ==
    /\ response.op = "sync_guest_cart"
    /\ response.outcome = "200"
    /\ response.input = <<[product_id |-> "p1", quantity |-> 2],
                          [product_id |-> "p2", quantity |-> 3]>>
    /\ carts["u1"] = <<[product_id |-> "p1", quantity |-> 5],
                       [product_id |-> "p2", quantity |-> 3]>>

\* Every stored cart line has a quantity of at least 1.
QuantitiesPositive ==
    \A u \in DOMAIN carts : \A i \in 1..Len(carts[u]) : carts[u][i].quantity >= 1

\* C14: every cart line has a quantity of at least 1 after every cart
\* request, and a request to update the quantity of a line to a value <= 0
\* ends with that line removed.
C14_NonPositiveUpdateRemoves ==
    [][/\ QuantitiesPositive'
       /\ response'.op = "update_item"
          => LET user_id == response'.user_id
                 product_id == response'.input[1].product_id
                 after == IF user_id \in DOMAIN carts' THEN carts'[user_id] ELSE <<>>
             IN  (/\ response'.input[1].quantity <= 0
                  /\ LineOf(CartOf(user_id), product_id) # 0)
                 => LineOf(after, product_id) = 0
      ]_vars

\* C15: a cart never holds two lines for the same product, whatever cart
\* requests for that product run at once.
C15_OneLinePerProduct ==
    \A u \in DOMAIN carts : \A p \in Products : Count(carts[u], p) <= 1

\* The registry holds an active entry for the postcode.
ActiveRegistryEntry(postcode) ==
    \E x \in DOMAIN service_postcodes :
        x = postcode /\ service_postcodes[x].is_active = TRUE

\* The step by which request r starts or refuses a create_address.
CreateAddressCall(r) ==
    /\ req[r].pc = "idle"
    /\ \/ req'[r].op = "create_address"
       \/ response'.op = "create_address" /\ response'.req = r

\* C16: create_address goes through exactly when the postcode of the body
\* matches an active registry entry at the time of the call; the address it
\* then stores is verified; a refused call answers with a business error and
\* stores no address and changes no default flag.
C16_CreateIffPostcodeServed ==
    [][\A r \in Reqs :
          /\ CreateAddressCall(r) =>
                IF ActiveRegistryEntry(IF req'[r].op = "create_address"
                                       THEN req'[r].data.postcode
                                       ELSE response'.input[1].postcode)
                THEN req'[r].pc = "ca_unset" /\ response' = NoResponse
                ELSE /\ response'.outcome = "400 not in our service area"
                     /\ addresses' = addresses
                     /\ req' = req
          /\ (req[r].op = "create_address" /\ req'[r].pc = "idle") =>
                /\ response'.outcome = "201"
                /\ req[r].address_id \notin DOMAIN addresses
                /\ req[r].address_id \in DOMAIN addresses'
                /\ addresses'[req[r].address_id].is_verified
                /\ addresses'[req[r].address_id].user_id = req[r].user_id
                /\ addresses'[req[r].address_id].postcode = req[r].data.postcode
      ]_vars

\* An address has just been created at a postcode that entered the registry
\* after the start.
C16_Witness ==
    /\ response.op = "create_address"
    /\ response.outcome = "201"
    /\ response.address_id \in DOMAIN addresses
    /\ addresses[response.address_id].postcode = "9999"
    /\ addresses[response.address_id].is_verified

\* C17: no user ever has more than one default address, whatever address
\* requests have run, one after another or interleaved.
C17_AtMostOneDefault ==
    \A u \in Users : Cardinality(DefaultsOf(u)) <= 1

\* An order in the orders table refers to the address.
OrdersAt(address_id) ==
    {o \in 1..Len(orders) : orders[o].address_id = address_id}

\* C18: delete_address on an address of the caller that an order refers to
\* fails, and leaves the address and the order, reference included, as they
\* were.
C18_ReferencedAddressStays ==
    [][(/\ response'.op = "delete_address"
        /\ get_address_by_id(response'.address_id, response'.user_id)
        /\ OrdersAt(response'.address_id) # {})
       => /\ response'.outcome \notin {"204", "200"}
          /\ addresses' = addresses
          /\ orders' = orders
      ]_vars

\* u1 has just been refused the delete of a1, the address of order 1.
C18_Witness ==
    /\ response.op = "delete_address"
    /\ response.outcome = "IntegrityError"
    /\ response.address_id = "a1"
    /\ "a1" \in DOMAIN addresses
    /\ orders[1].address_id = "a1"

\* The address is another user's, or no address has the id.
NotOwnAddress(address_id, user_id) ==
    address_id \notin DOMAIN addresses \/ addresses[address_id].user_id # user_id

\* The order is another user's, or no order has the id.
NotOwnOrder(order_id, user_id) ==
    order_id \notin 1..Len(orders) \/ orders[order_id].user_id # user_id

\* C19: get, update and delete of an address and get of an order or of its
\* invoice, asked by a user for a resource of another user, answer exactly as
\* for an id that does not exist, with the same not-found outcome, and leave
\* the resource unchanged.
C19_ForeignIsNotFound ==
    [][/\ (/\ response'.op \in {"get_address", "update_address", "delete_address"}
           /\ response'.at = "idle"
           /\ NotOwnAddress(response'.address_id, response'.user_id))
          => /\ response'.outcome = "404 Address not found"
             /\ addresses' = addresses
       /\ (/\ response'.op \in {"get_order", "get_invoice"}
           /\ NotOwnOrder(response'.order_id, response'.user_id))
          => /\ response'.outcome = "404 Order not found"
             /\ orders' = orders
             /\ invoices' = invoices
       /\ \A r \in Reqs :
             (req[r].pc = "idle" /\ req'[r].op = "update_address")
             => ~NotOwnAddress(req'[r].address_id, req'[r].user_id)
      ]_vars

\* u2 has just asked to delete a4, an address of u1 that no order refers to,
\* and was told that there is no such address; a4 is as it was.
C19_Witness ==
    /\ response.op = "delete_address"
    /\ response.user_id = "u2"
    /\ response.address_id = "a4"
    /\ response.outcome = "404 Address not found"
    /\ "a4" \in DOMAIN addresses
    /\ addresses["a4"] = InitialAddresses["a4"]

\* C20: an admin request without the X-Admin-API-Key header, or with a value
\* that is not the configured key, is answered 403 and changes nothing,
\* whether or not the request is logged in as a user.
C20_AdminRejectedWith403 ==
    [][(/\ response'.op \in AdminEndpoints
        /\ response'.at = "verify_admin_api_key")
       => /\ response'.outcome = "403"
          /\ UNCHANGED <<products, addresses, carts, orders, invoices, service_postcodes>>
      ]_vars

\* The sequence numbers of the committed invoices of year y.
SequencesOf(y) ==
    {invoices[i].invoice_number.seq :
        i \in {j \in 1..Len(invoices) : invoices[j].invoice_number.year = y}}

\* C21: a checkout that runs alone is given the number INV-{year}-{n}, n
\* written with at least six digits, zeros in front: n is 1 when the current
\* year has no invoice and one more than the highest sequence number of the
\* current year otherwise, whatever the invoices of other years.
C21_NextInvoiceNumber ==
    [][\A r \in Reqs :
          (req[r].pc = "co_priced" /\ req'[r].pc = "co_numbered")
          => LET n == IF SequencesOf(year) = {} THEN 1 ELSE Max(SequencesOf(year)) + 1
                 text == InvoiceNumberText(req'[r].invoice_number)
             IN  /\ req'[r].invoice_number = [year |-> year, seq |-> n]
                 /\ text.prefix = "INV"
                 /\ text.year = year
                 /\ ToInt(text.sequence) = n
                 /\ Len(text.sequence) >= PadWidth
                 /\ n <= LastSixDigit => Len(text.sequence) = PadWidth
                 /\ \A i \in 1..Len(text.sequence) : text.sequence[i] \in 0..9
      ]_vars

\* The first checkout of year 2 has been given number 1 although year 1
\* ended at 10.
C21_Witness ==
    /\ response.op = "create_order"
    /\ response.outcome = "201"
    /\ Len(invoices) = 3
    /\ invoices[2].invoice_number = [year |-> 1, seq |-> 10]
    /\ invoices[3].invoice_number = [year |-> 2, seq |-> 1]

C23_ReturnedCartCountsActiveLines ==
    (response.op \in CartOps /\ response.outcome = "200") =>
        LET lines == SelectSeq(CartOf(response.user_id),
                               LAMBDA l : /\ l.product_id \in DOMAIN products
                                          /\ products[l.product_id].is_active = TRUE)
            RECURSIVE Sum(_, _)
            Sum(rest, priced) ==
                IF rest = <<>> THEN 0
                ELSE (IF priced THEN products[Head(rest).product_id].price ELSE 1)
                        * Head(rest).quantity + Sum(Tail(rest), priced)
        IN  /\ Len(response.cart.items) = Len(lines)
            /\ \A i \in 1..Len(lines) :
                  /\ response.cart.items[i].product_id = lines[i].product_id
                  /\ response.cart.items[i].quantity = lines[i].quantity
            /\ response.cart.subtotal = Sum(lines, TRUE)
            /\ response.cart.item_count = Sum(lines, FALSE)

\* C24: update_address leaves the postcode, the verification flag and the
\* owner of every address as they were, adds and removes no address, and
\* changes nothing but the street and the default flag of the addressed
\* record and the default flag of the same user's other addresses.
C24_UpdateAddressFrame ==
    [][response'.op = "update_address" =>
          /\ DOMAIN addresses' = DOMAIN addresses
          /\ \A a \in DOMAIN addresses :
                /\ addresses'[a].postcode = addresses[a].postcode
                /\ addresses'[a].is_verified = addresses[a].is_verified
                /\ addresses'[a].user_id = addresses[a].user_id
                /\ a # response'.address_id =>
                      /\ addresses'[a].street = addresses[a].street
                      /\ addresses'[a].is_default # addresses[a].is_default =>
                            /\ addresses[a].user_id = response'.user_id
                            /\ addresses'[a].is_default = FALSE
      ]_vars

\* An update whose body carried a postcode has been applied: the street
\* is the new one, the postcode the old one.
C24_Witness ==
    /\ response.op = "update_address"
    /\ response.outcome = "200"
    /\ response.address_id = "a1"
    /\ response.input[1].postcode = "9999"
    /\ addresses["a1"].street = "Oak 2"
    /\ addresses["a1"].postcode = "2100"
    /\ addresses["a1"].is_verified

\* C25: a user never has more than one cart row, committed or inserted by a
\* request still in flight, also when two requests of a user without a cart
\* run get_or_create_cart at the same time.
C25_OneCartPerUser ==
    \A u \in Users :
        Cardinality({r \in Reqs : req[r].creates_cart /\ req[r].user_id = u})
            + (IF u \in DOMAIN carts THEN 1 ELSE 0) <= 1

\* Two requests of u1 found no cart; one created it and committed, the
\* insert of the other was refused.
C25_Witness ==
    /\ response.outcome = "IntegrityError: user_id"
    /\ response.user_id = "u1"
    /\ "u1" \in DOMAIN carts
    /\ \A r \in Reqs : ~req[r].creates_cart

\* C26: the verification flag of an address is set when the address is
\* created and no later step changes it, whatever happens to the registry;
\* create_order refuses the address of a checkout only when the address is
\* missing, of another user or not flagged verified, so an address whose
\* postcode has left the registry still passes.
C26_VerifiedAtCreationOnly ==
    [][/\ \A a \in DOMAIN addresses \cap DOMAIN addresses' :
             addresses'[a].is_verified = addresses[a].is_verified
       /\ (/\ response'.op = "create_order"
           /\ response'.outcome = "Please select a verified delivery address")
             => ~(/\ response'.address_id \in DOMAIN addresses
                  /\ addresses[response'.address_id].user_id = response'.user_id
                  /\ addresses[response'.address_id].is_verified = TRUE)
      ]_vars

\* An order has been committed to the address u1 created in postcode 2100,
\* after 2100 was removed from the registry.
C26_Witness ==
    /\ response.op = "create_order"
    /\ response.outcome = "201"
    /\ "2100" \notin DOMAIN service_postcodes
    /\ "a5" \in DOMAIN addresses
    /\ addresses["a5"].postcode = "2100"
    /\ addresses["a5"].is_verified
    /\ orders[response.order_id].address_id = "a5"

C28_HistoryFollowsTable ==
    \A o \in 1..Len(orders) :
        LET history == orders[o].status_history
        IN  /\ history # <<>> => history[1].status = "PLACED"
            /\ \A i \in 1..(Len(history) - 1) :
                  <<history[i].status, history[i + 1].status>> \in TransitionTable

C30_SyncIdempotentAndMonotone ==
    [][\A r \in Reqs :
          LET user_id == req[r].user_id
              before == CartOf(user_id)
              after == IF user_id \in DOMAIN carts' THEN carts'[user_id] ELSE <<>>
          IN  (/\ CartStep(r, "sync_guest_cart")
               /\ before = req[r].items)
              => /\ response'.outcome = "200"
                 /\ sync_guest_cart(after, req[r].input) = after
                 /\ Len(after) >= Len(before)
                 /\ \A i \in 1..Len(before) :
                       \E j \in 1..Len(after) :
                          /\ after[j].product_id = before[i].product_id
                          /\ after[j].quantity >= before[i].quantity
                 /\ \A p \in Products : Count(after, p) >= Count(before, p)
      ]_vars

\* A sync whose list named p1 twice, with 3 and with 1, has left one line
\* of 3 next to the 2 of p2 the cart held.
C30_Witness ==
    /\ response.op = "sync_guest_cart"
    /\ response.outcome = "200"
    /\ response.input = <<[product_id |-> "p1", quantity |-> 3],
                          [product_id |-> "p1", quantity |-> 1]>>
    /\ carts["u1"] = <<[product_id |-> "p1", quantity |-> 3],
                       [product_id |-> "p2", quantity |-> 2]>>
====
